---- MODULE Spec2Model ----
(***************************************************************************)
(* MultibodyTreeSystem<T> (multibody/multibody_tree/multibody_tree_system.cc) *)
(* as a state machine: the build-once lifecycle of a system that owns a    *)
(* MultibodyTree, the state and cache entries it declares in Finalize(),   *)
(* scalar conversion, and the pull-based evaluation of the two kinematics  *)
(* cache entries on a context.                                             *)
(*                                                                         *)
(* MultibodyTree, LeafSystem and the cache/ticket machinery are not part   *)
(* of the translation unit; they are modelled from their documented        *)
(* interface.                                                              *)
(***************************************************************************)
EXTENDS Integers, Sequences, FiniteSets

VARIABLES
  sys,    \* sys[s]: the MultibodyTreeSystem object in slot s
  ctx,    \* the context (one simulation run) pulled by the evaluators
  last    \* the last call made and how it ended

vars == <<sys, ctx, last>>

----------------------------------------------------------------------------
(* Bounds of the model *)

\* most mobilizers a tree is given before it is finalized
MaxMobilizers == 1

\* positions and velocities written into a context are drawn from 0..MaxVal
MaxVal == 1

\* pulls stop once an entry was recomputed this often since the last mutation
MaxRecomputes == 2

\* a tree that breaks its size contract reports up to MaxSkew states too many
MaxSkew == 1

----------------------------------------------------------------------------
(* Slots and scalar types *)

\* slot 1 is built by the one true constructor, slot 2 by the converting one
Source == 1
Clone == 2
Systems == {Source, Clone}

Scalars == {"double", "AutoDiffXd"}

\* the explicit instantiations: double -> AutoDiffXd and AutoDiffXd -> double
ConvertedScalar(U) == IF U = "double" THEN "AutoDiffXd" ELSE "double"

\* (num_positions, num_velocities) a mobilizer adds: a revolute joint, a
\* quaternion ball joint with translation
MobilizerKinds == {<<1, 1>>, <<4, 3>>}

Vals == 0..MaxVal

\* an invalid (default constructed) cache index
NoIndex == -1

\* the value a cache allocator makes: not computed from any state
Unset == -1

----------------------------------------------------------------------------
(* MultibodyTree<T> *)

\* MultibodyTree<T>(): an empty tree, topology not valid
EmptyTree(T) ==
  [scalar |-> T, topology_is_valid |-> FALSE, num_mobilizers |-> 0,
   mob_q |-> 0, mob_v |-> 0,
   num_positions |-> 0, num_velocities |-> 0, num_states |-> 0, skew |-> 0]

\* adding a mobilizer to a tree whose topology is not valid yet
TreeAddMobilizer(t, k) ==
  [t EXCEPT !.num_mobilizers = @ + 1, !.mob_q = @ + k[1], !.mob_v = @ + k[2]]

\* MultibodyTree::Finalize(): freezes the topology and fixes the sizes
TreeFinalize(t) ==
  [t EXCEPT !.topology_is_valid = TRUE,
            !.num_positions = t.mob_q,
            !.num_velocities = t.mob_v,
            !.num_states = t.mob_q + t.mob_v + t.skew]

RECURSIVE TreesWith(_, _)
\* the unfinalized trees over scalar T with exactly n mobilizers
TreesWith(T, n) ==
  IF n = 0 THEN {EmptyTree(T)}
  ELSE {TreeAddMobilizer(t, k) : t \in TreesWith(T, n - 1), k \in MobilizerKinds}

\* the trees over scalar T a caller can hand to the constructor: assembled,
\* finalized or not
SuppliedTrees(T) ==
  LET open == UNION {TreesWith(T, n) : n \in 0..MaxMobilizers}
  IN  open \cup {TreeFinalize(t) : t \in open}

\* MultibodyTree::CloneToScalar<T>(): a new tree over scalar T with the
\* topology of t, finalized; the elements are cloned one by one
CloneToScalar(t, T) ==
  [scalar |-> T, topology_is_valid |-> TRUE,
   num_mobilizers |-> t.num_mobilizers, mob_q |-> t.mob_q, mob_v |-> t.mob_v,
   num_positions |-> t.num_positions, num_velocities |-> t.num_velocities,
   num_states |-> t.num_positions + t.num_velocities + t.skew, skew |-> t.skew]

\* a tree that breaks its contract: once finalized it reports d states more
\* than its positions and velocities add up to
Misreporting(t, d) ==
  [t EXCEPT !.skew = d,
            !.num_states = IF t.topology_is_valid
                           THEN t.num_positions + t.num_velocities + d ELSE @]

\* the trees a caller can hand over when trees may break the size contract
FaultyTrees(T) == {Misreporting(t, d) : t \in SuppliedTrees(T), d \in 0..MaxSkew}

\* CloneToScalar() refuses a tree whose topology is not valid
CloneToScalarThrows(t) == ~t.topology_is_valid

----------------------------------------------------------------------------
(* LeafSystem: state and cache entry declarations; dependency tickets *)

\* the sources of change a ticket stands for
configuration_ticket == {"q"}
kinematics_ticket == {"q", "v"}

DeclareDiscreteState(c, n) ==
  [c EXCEPT !.declared_state = Append(@, [kind |-> "discrete", size |-> n,
                                           num_q |-> 0, num_v |-> 0, num_z |-> 0]),
            !.events = Append(@, "DeclareState")]

\* DeclareContinuousState(model_vector, num_q, num_v, num_z): a model vector
\* whose size is not num_q + num_v + num_z is a fatal error, nothing is declared
DeclareContinuousState(c, n, nq, nv, nz) ==
  IF n # nq + nv + nz
  THEN [c EXCEPT !.aborted = TRUE]
  ELSE
  [c EXCEPT !.declared_state = Append(@, [kind |-> "continuous", size |-> n,
                                           num_q |-> nq, num_v |-> nv, num_z |-> nz]),
            !.events = Append(@, "DeclareState")]

\* DeclareCacheEntry(name, alloc, calc, prerequisites): the new entry gets the
\* next index, counted from 0
DeclareCacheEntry(c, name, calc, prerequisites) ==
  [c EXCEPT !.cache_entries = Append(@, [name |-> name, calc |-> calc,
                                          prerequisites |-> prerequisites,
                                          cache_index |-> Len(c.cache_entries)]),
            !.events = Append(@, "DeclareCacheEntry:" \o name)]

----------------------------------------------------------------------------
(* MultibodyTreeSystem<T> *)

\* no object in the slot
NoSystem ==
  [live |-> FALSE, scalar |-> "double", is_discrete |-> FALSE,
   tree |-> EmptyTree("double"), deferred |-> FALSE,
   already_finalized |-> FALSE, declared_state |-> <<>>, cache_entries |-> <<>>,
   position_kinematics_cache_index |-> NoIndex,
   velocity_kinematics_cache_index |-> NoIndex,
   events |-> <<>>, cloned_from |-> 0, aborted |-> FALSE]

\* the one true constructor: the member initialisers, and the tree it is given
NewSystem(T, is_discrete, tree) ==
  [NoSystem EXCEPT !.live = TRUE, !.scalar = T, !.is_discrete = is_discrete,
                   !.tree = tree]

\* a null-tree constructor that marks the new system finalized
ConstructDeferred_MarkedFinalized(T, is_discrete) ==
  [NewSystem(T, is_discrete, EmptyTree(T))
     EXCEPT !.deferred = TRUE, !.already_finalized = TRUE]

\* the one true constructor, tree == nullptr and null_tree_is_ok: an empty
\* tree is made and the system is left unfinalized ("Don't finalize.")
ConstructDeferred(T, is_discrete) ==
  [NewSystem(T, is_discrete, EmptyTree(T)) EXCEPT !.deferred = TRUE]

\* a constructor that accepts a null tree whatever the flag
NullTreeThrows_Never(null_tree_is_ok) == FALSE

\* the one true constructor, tree == nullptr: a null tree is an error unless
\* the caller allows it
NullTreeThrows(null_tree_is_ok) == ~null_tree_is_ok

\* a Finalize() without the guard against repeated calls
FinalizeThrows_Never(c) == FALSE

\* Finalize(): the guard against repeated calls
FinalizeThrows(c) == c.already_finalized

\* a Finalize() that leaves the tree as it is
FinalizeTree_Skipped(c) == c

\* Finalize(): the model's topology is finalized unless it is valid already
FinalizeTree(c) ==
  IF ~c.tree.topology_is_valid
  THEN [c EXCEPT !.tree = TreeFinalize(@), !.events = Append(@, "tree.Finalize")]
  ELSE c

\* a state declaration without the else: the discrete state is declared in
\* discrete mode, and the continuous state in either mode
DeclareState_NoElse(c) ==
  LET d == IF c.is_discrete THEN DeclareDiscreteState(c, c.tree.num_states) ELSE c
  IN  DeclareContinuousState(d, c.tree.num_states, c.tree.num_positions,
                             c.tree.num_velocities, 0)

\* a state declaration with the two segment sizes exchanged
DeclareState_Swapped(c) ==
  IF c.is_discrete
  THEN DeclareDiscreteState(c, c.tree.num_states)
  ELSE DeclareContinuousState(c, c.tree.num_states, c.tree.num_velocities,
                              c.tree.num_positions, 0)

\* a state declaration that sizes the continuous vector by its segments
DeclareState_SizedBySegments(c) ==
  IF c.is_discrete
  THEN DeclareDiscreteState(c, c.tree.num_states)
  ELSE DeclareContinuousState(c, c.tree.num_positions + c.tree.num_velocities,
                              c.tree.num_positions, c.tree.num_velocities, 0)

\* Finalize(): "Declare state."
DeclareState(c) ==
  IF c.is_discrete
  THEN DeclareDiscreteState(c, c.tree.num_states)
  ELSE DeclareContinuousState(c, c.tree.num_states, c.tree.num_positions,
                              c.tree.num_velocities, 0)

\* a position entry declared on the kinematics ticket
DeclarePositionKinematics_OnKinematics(c) ==
  LET d == DeclareCacheEntry(c, "position kinematics", "position",
                             kinematics_ticket)
  IN  [d EXCEPT !.position_kinematics_cache_index =
                   d.cache_entries[Len(d.cache_entries)].cache_index]

\* Finalize(): "Allocate position cache."
DeclarePositionKinematics(c) ==
  LET d == DeclareCacheEntry(c, "position kinematics", "position",
                             configuration_ticket)
  IN  [d EXCEPT !.position_kinematics_cache_index =
                   d.cache_entries[Len(d.cache_entries)].cache_index]

\* a velocity entry whose index ends up equal to the position entry's
DeclareVelocityKinematics_SameIndex(c) ==
  LET d == DeclareCacheEntry(c, "velocity kinematics", "velocity",
                             kinematics_ticket)
  IN  [d EXCEPT !.velocity_kinematics_cache_index =
                   d.position_kinematics_cache_index]

\* a velocity entry declared on the configuration ticket
DeclareVelocityKinematics_OnConfiguration(c) ==
  LET d == DeclareCacheEntry(c, "velocity kinematics", "velocity",
                             configuration_ticket)
  IN  [d EXCEPT !.velocity_kinematics_cache_index =
                   d.cache_entries[Len(d.cache_entries)].cache_index]

\* Finalize(): "Allocate velocity cache."
DeclareVelocityKinematics(c) ==
  LET d == DeclareCacheEntry(c, "velocity kinematics", "velocity",
                             kinematics_ticket)
  IN  [d EXCEPT !.velocity_kinematics_cache_index =
                   d.cache_entries[Len(d.cache_entries)].cache_index]

\* Finalize(): the last statement
MarkFinalized(c) ==
  [c EXCEPT !.already_finalized = TRUE, !.events = Append(@, "already_finalized")]

\* a Finalize() body that sets the flag before it declares anything
FinalizeBody_MarkedFirst(c) ==
  LET d == DeclareState(MarkFinalized(FinalizeTree(c)))
  IN  IF d.aborted THEN d
      ELSE DeclareVelocityKinematics(DeclarePositionKinematics(d))

\* the body of Finalize() past its guard; a fatal error in the state
\* declaration ends it there
FinalizeBody(c) ==
  LET d == DeclareState(FinalizeTree(c))
  IN  IF d.aborted THEN d
      ELSE MarkFinalized(DeclareVelocityKinematics(DeclarePositionKinematics(d)))

\* a constructor that keeps the tree it is given and does not finalize
ConstructWithTree_NoFinalize(T, is_discrete, tree) ==
  NewSystem(T, is_discrete, tree)

\* the one true constructor, "We were given an already-built tree.":
\* Finalize() runs on the new system
ConstructWithTree(T, is_discrete, tree) ==
  FinalizeBody(NewSystem(T, is_discrete, tree))

\* a mutable_tree() guarded by the system's own flag
MutableTreeThrows_OnFlag(c) == c.already_finalized

\* a mutable_tree() that hands out the reference whatever the topology
MutableTreeThrows_Never(c) == FALSE

\* mutable_tree(): the guard
MutableTreeThrows(c) == c.tree.topology_is_valid

----------------------------------------------------------------------------
(* The context: state values and cache entry values *)

NoContext ==
  [live |-> FALSE, owner |-> 0, is_discrete |-> FALSE, q |-> 0, v |-> 0,
   cache |-> <<>>, last_change |-> "none", fresh_at_change |-> FALSE]

\* a cache entry value as its allocator makes it: out of date, computed from
\* nothing; recomputes counts the runs of its calc function since the last
\* change of the state, touched holds the sources changed since its last run
AllocatedValue ==
  [up_to_date |-> FALSE, from_q |-> Unset, from_v |-> Unset, recomputes |-> 0,
   touched |-> {}]

\* DoMakeLeafContext(): a MultibodyTreeContext for the tree's topology and the
\* system's mode; the framework allocates one value per declared cache entry
DoMakeLeafContext(c, s) ==
  [live |-> TRUE, owner |-> s, is_discrete |-> c.is_discrete, q |-> 0, v |-> 0,
   cache |-> [i \in 1..Len(c.cache_entries) |-> AllocatedValue],
   last_change |-> "none", fresh_at_change |-> FALSE]

\* the cache value of the entry with cache index i (indices count from 0)
CacheValue(x, i) == x.cache[i + 1]

\* a change of the sources in touched: every entry that has one of them among
\* its prerequisites goes out of date
NoteChange(c, x, touched) ==
  [x EXCEPT !.fresh_at_change =
               \A i \in 1..Len(x.cache) : x.cache[i].up_to_date,
            !.cache =
     [i \in 1..Len(x.cache) |->
        [x.cache[i] EXCEPT
           !.up_to_date = @ /\ (c.cache_entries[i].prerequisites \cap touched = {}),
           !.recomputes = 0,
           !.touched = @ \cup touched]]]

\* a position calc function that pushes a new value into the velocity entry
\* as well
CalcPositionKinematics_Push(c, x) ==
  [x EXCEPT !.cache[c.position_kinematics_cache_index + 1] =
     [up_to_date |-> TRUE, from_q |-> x.q, from_v |-> Unset,
      recomputes |-> @.recomputes + 1, touched |-> {}],
            !.cache[c.velocity_kinematics_cache_index + 1] =
     [up_to_date |-> TRUE, from_q |-> x.q, from_v |-> x.v,
      recomputes |-> @.recomputes + 1, touched |-> {}]]

\* the calc function of the position kinematics entry:
\* tree->CalcPositionKinematicsCache(context, &position_cache)
CalcPositionKinematics(c, x) ==
  [x EXCEPT !.cache[c.position_kinematics_cache_index + 1] =
     [up_to_date |-> TRUE, from_q |-> x.q, from_v |-> Unset,
      recomputes |-> @.recomputes + 1, touched |-> {}]]

\* tree->EvalPositionKinematics(context): the stored value if it is up to date,
\* else the calc function runs first
EvalPositionKinematics(c, x) ==
  IF CacheValue(x, c.position_kinematics_cache_index).up_to_date
  THEN x
  ELSE CalcPositionKinematics(c, x)

\* a velocity calc function that reads the stored position kinematics value
\* without evaluating the entry
CalcVelocityKinematics_NoEval(c, x) ==
  LET pc == CacheValue(x, c.position_kinematics_cache_index)
  IN  [x EXCEPT !.cache[c.velocity_kinematics_cache_index + 1] =
         [up_to_date |-> TRUE, from_q |-> pc.from_q, from_v |-> x.v,
          recomputes |-> @.recomputes + 1, touched |-> {}]]

\* a velocity calc function that takes the stored position kinematics value
\* first and evaluates the position entry only afterwards
CalcVelocityKinematics_EvalLate(c, x) ==
  LET pc == CacheValue(x, c.position_kinematics_cache_index)
      y  == EvalPositionKinematics(c, x)
  IN  [y EXCEPT !.cache[c.velocity_kinematics_cache_index + 1] =
         [up_to_date |-> TRUE, from_q |-> pc.from_q, from_v |-> y.v,
          recomputes |-> @.recomputes + 1, touched |-> {}]]

\* the calc function of the velocity kinematics entry:
\* tree->CalcVelocityKinematicsCache(context,
\*     tree->EvalPositionKinematics(context), &velocity_cache)
CalcVelocityKinematics(c, x) ==
  LET y  == EvalPositionKinematics(c, x)
      pc == CacheValue(y, c.position_kinematics_cache_index)
  IN  [y EXCEPT !.cache[c.velocity_kinematics_cache_index + 1] =
         [up_to_date |-> TRUE, from_q |-> pc.from_q, from_v |-> y.v,
          recomputes |-> @.recomputes + 1, touched |-> {}]]

\* EvalVelocityKinematics(context)
EvalVelocityKinematics(c, x) ==
  IF CacheValue(x, c.velocity_kinematics_cache_index).up_to_date
  THEN x
  ELSE CalcVelocityKinematics(c, x)

\* no entry of the context has been recomputed MaxRecomputes times
MayPull(x) == \A i \in 1..Len(x.cache) : x.cache[i].recomputes < MaxRecomputes


----------------------------------------------------------------------------
(* Calls *)

\* a call of op on the system in slot s, what it was given, how it ended
CallWith(op, s, result, arg) ==
  [op |-> op, sys |-> s, result |-> result, arg |-> arg]

Call(op, s, result) == CallWith(op, s, result, "none")

\* the tree argument of the one true constructor, and its null_tree_is_ok
ConstructArg(tree_is_null, null_tree_is_ok, tree) ==
  IF tree_is_null
  THEN IF null_tree_is_ok THEN "nullptr, null_tree_is_ok" ELSE "nullptr"
  ELSE IF tree.topology_is_valid THEN "finalized tree" ELSE "tree"

\* how a run of the body of Finalize() ended
Outcome(c) == IF c.aborted THEN "fatal_error" ELSE "ok"

\* a fatal error ends the process: nothing runs once a system has aborted
Running == \A s \in Systems : ~sys[s].aborted

Init ==
  /\ sys = [s \in Systems |-> NoSystem]
  /\ ctx = NoContext
  /\ last = Call("none", 0, "ok")

\* MultibodyTreeSystem(converter, null_tree_is_ok, tree, is_discrete)
Construct(s, T, null_tree_is_ok, tree_is_null, tree, is_discrete) ==
  /\ ~sys[s].live
  /\ LET arg == ConstructArg(tree_is_null, null_tree_is_ok, tree)
     IN  IF tree_is_null
         THEN IF NullTreeThrows(null_tree_is_ok)
              THEN /\ last' = CallWith("Construct", s, "logic_error", arg)
                   /\ UNCHANGED sys
              ELSE \* an empty tree is made; "Don't finalize."
                   /\ sys' = [sys EXCEPT ![s] = ConstructDeferred(T, is_discrete)]
                   /\ last' = CallWith("Construct", s, "ok", arg)
         ELSE \* "We were given an already-built tree."
              IF FinalizeThrows(NewSystem(T, is_discrete, tree))
              THEN /\ last' = CallWith("Construct", s, "logic_error", arg)
                   /\ UNCHANGED sys
              ELSE LET c == ConstructWithTree(T, is_discrete, tree)
                   IN  /\ sys' = [sys EXCEPT ![s] = c]
                       /\ last' = CallWith("Construct", s, Outcome(c), arg)
  /\ UNCHANGED ctx

\* a Finalize() that declares the state before it tests the flag
Finalize_DeclaresBeforeGuard(s) ==
  /\ sys[s].live
  /\ IF FinalizeThrows(sys[s])
     THEN /\ last' = Call("Finalize", s, "logic_error")
          /\ sys' = [sys EXCEPT ![s] = DeclareState(@)]
     ELSE LET c == FinalizeBody(sys[s])
          IN  /\ sys' = [sys EXCEPT ![s] = c]
              /\ last' = Call("Finalize", s, Outcome(c))
  /\ UNCHANGED ctx

\* Finalize()
Finalize(s) ==
  /\ sys[s].live
  /\ IF FinalizeThrows(sys[s])
     THEN /\ last' = Call("Finalize", s, "logic_error")
          /\ UNCHANGED sys
     ELSE LET c == FinalizeBody(sys[s])
          IN  /\ sys' = [sys EXCEPT ![s] = c]
              /\ last' = Call("Finalize", s, Outcome(c))
  /\ UNCHANGED ctx

\* mutable_tree(): the caller gets the reference, or a logic error
MutableTree(s) ==
  /\ sys[s].live
  /\ last' = Call("mutable_tree", s,
                  IF MutableTreeThrows(sys[s]) THEN "logic_error" ELSE "ok")
  /\ UNCHANGED <<sys, ctx>>

\* a structural edit through the reference mutable_tree() returns
AddMobilizer(s, k) ==
  /\ sys[s].live
  /\ sys[s].tree.num_mobilizers < MaxMobilizers
  /\ IF MutableTreeThrows(sys[s])
     THEN /\ last' = Call("AddMobilizer", s, "logic_error")
          /\ UNCHANGED sys
     ELSE /\ sys' = [sys EXCEPT ![s].tree = TreeAddMobilizer(@, k)]
          /\ last' = Call("AddMobilizer", s, "ok")
  /\ UNCHANGED ctx

\* mutable_tree().Finalize(): the caller finalizes the tree, not the system
FinalizeTreeDirectly(s) ==
  /\ sys[s].live
  /\ IF MutableTreeThrows(sys[s])
     THEN /\ last' = Call("tree.Finalize", s, "logic_error")
          /\ UNCHANGED sys
     ELSE /\ sys' = [sys EXCEPT ![s].tree = TreeFinalize(@)]
          /\ last' = Call("tree.Finalize", s, "ok")
  /\ UNCHANGED ctx

\* a converting constructor that does not pass the mode of the source on
ConvertArgs_DefaultMode(other, T) ==
  [null_tree_is_ok |-> FALSE, tree |-> CloneToScalar(other.tree, T),
   is_discrete |-> FALSE]

\* what the converting constructor hands to the one true constructor
ConvertArgs(other, T) ==
  [null_tree_is_ok |-> FALSE, tree |-> CloneToScalar(other.tree, T),
   is_discrete |-> other.is_discrete]

\* MultibodyTreeSystem<T>(const MultibodyTreeSystem<U>& other)
Convert(from, to) ==
  /\ sys[from].live
  /\ ~sys[to].live
  /\ IF CloneToScalarThrows(sys[from].tree)
     THEN /\ last' = Call("Convert", to, "logic_error")
          /\ UNCHANGED sys
     ELSE LET T == ConvertedScalar(sys[from].scalar)
              a == ConvertArgs(sys[from], T)
              c == [NewSystem(T, a.is_discrete, a.tree) EXCEPT !.cloned_from = from]
          IN  IF FinalizeThrows(c)
              THEN /\ last' = Call("Convert", to, "logic_error")
                   /\ UNCHANGED sys
              ELSE LET d == FinalizeBody(c)
                   IN  /\ sys' = [sys EXCEPT ![to] = d]
                       /\ last' = Call("Convert", to, Outcome(d))
  /\ UNCHANGED ctx

\* a context for a new simulation run; DoMakeLeafContext() itself tests
\* nothing, contexts are made from the frozen model of a finalized system
CreateContext(s) ==
  /\ sys[s].live
  /\ sys[s].already_finalized
  /\ ctx' = DoMakeLeafContext(sys[s], s)
  /\ last' = Call("CreateContext", s, "ok")
  /\ UNCHANGED sys

\* the position sub-state of the context is written
SetPositions(val) ==
  /\ ctx.live
  /\ ctx' = [NoteChange(sys[ctx.owner], ctx, {"q"})
               EXCEPT !.q = val, !.last_change = "q"]
  /\ last' = Call("SetPositions", ctx.owner, "ok")
  /\ UNCHANGED sys

\* the velocity sub-state of the context is written
SetVelocities(val) ==
  /\ ctx.live
  /\ ctx' = [NoteChange(sys[ctx.owner], ctx, {"v"})
               EXCEPT !.v = val, !.last_change = "v"]
  /\ last' = Call("SetVelocities", ctx.owner, "ok")
  /\ UNCHANGED sys

\* SetDefaultState(context, state): the whole state gets the tree's defaults
SetDefaultState ==
  /\ ctx.live
  /\ ctx' = [NoteChange(sys[ctx.owner], ctx, {"q", "v"})
               EXCEPT !.q = 0, !.v = 0, !.last_change = "qv"]
  /\ last' = Call("SetDefaultState", ctx.owner, "ok")
  /\ UNCHANGED sys

\* an evaluator pulls the position kinematics entry
PullPositionKinematics ==
  /\ ctx.live
  /\ MayPull(ctx)
  /\ ctx' = EvalPositionKinematics(sys[ctx.owner], ctx)
  /\ last' = Call("EvalPositionKinematics", ctx.owner, "ok")
  /\ UNCHANGED sys

\* an evaluator pulls the velocity kinematics entry
PullVelocityKinematics ==
  /\ ctx.live
  /\ MayPull(ctx)
  /\ ctx' = EvalVelocityKinematics(sys[ctx.owner], ctx)
  /\ last' = Call("EvalVelocityKinematics", ctx.owner, "ok")
  /\ UNCHANGED sys

\* the lifecycle of the systems, and the evaluators of a context at the
\* default state
Next ==
  \/ \E T \in Scalars, null_tree_is_ok \in BOOLEAN, tree_is_null \in BOOLEAN,
        is_discrete \in BOOLEAN :
       \E tree \in SuppliedTrees(T) :
         Construct(Source, T, null_tree_is_ok, tree_is_null, tree, is_discrete)
  \/ \E s \in Systems : Finalize(s)
  \/ \E s \in Systems : MutableTree(s)
  \/ \E s \in Systems, k \in MobilizerKinds : AddMobilizer(s, k)
  \/ \E s \in Systems : FinalizeTreeDirectly(s)
  \/ Convert(Source, Clone)
  \/ \E s \in Systems : CreateContext(s)
  \/ SetDefaultState
  \/ PullPositionKinematics
  \/ PullVelocityKinematics

Spec == Init /\ [][Next]_vars

\* a system as the constructor leaves it when it is given a tree, and no
\* context yet
CacheInit ==
  /\ \E T \in Scalars, is_discrete \in BOOLEAN :
       \E tree \in SuppliedTrees(T) :
         /\ sys = [s \in Systems |->
                     IF s = Source THEN ConstructWithTree(T, is_discrete, tree)
                     ELSE NoSystem]
         /\ last = CallWith("Construct", Source, "ok",
                             ConstructArg(FALSE, FALSE, tree))
  /\ ctx = NoContext

\* the simulation runs of a finalized system: state changes and pulls
CacheNext ==
  \/ CreateContext(Source)
  \/ \E val \in Vals : SetPositions(val)
  \/ \E val \in Vals : SetVelocities(val)
  \/ SetDefaultState
  \/ PullPositionKinematics
  \/ PullVelocityKinematics

CacheSpec == CacheInit /\ [][CacheNext]_vars

\* a tree that a caller built and handed over misreports its size
ConstructFaulty(s) ==
  \E T \in Scalars, null_tree_is_ok \in BOOLEAN, tree_is_null \in BOOLEAN,
     is_discrete \in BOOLEAN :
    \E tree \in FaultyTrees(T) :
      Construct(s, T, null_tree_is_ok, tree_is_null, tree, is_discrete)

\* the tree of a system not yet finalized starts to misreport its size
Misreport(s, d) ==
  /\ sys[s].live
  /\ ~sys[s].already_finalized
  /\ sys[s].tree.skew # d
  /\ sys' = [sys EXCEPT ![s].tree = Misreporting(@, d)]
  /\ last' = Call("Misreport", s, "ok")
  /\ UNCHANGED ctx

\* the lifecycle with trees that may break num_positions + num_velocities =
\* num_states; a fatal error ends the run
FaultyNext ==
  /\ Running
  /\ \/ ConstructFaulty(Source)
     \/ \E s \in Systems, d \in 0..MaxSkew : Misreport(s, d)
     \/ \E s \in Systems : Finalize(s)
     \/ \E s \in Systems : MutableTree(s)
     \/ \E s \in Systems, k \in MobilizerKinds : AddMobilizer(s, k)
     \/ \E s \in Systems : FinalizeTreeDirectly(s)
     \/ Convert(Source, Clone)

FaultySpec == Init /\ [][FaultyNext]_vars

----------------------------------------------------------------------------
(* Properties *)

\* the number of times Finalize() has run to its end on the system
FinalizeCompleted(c) ==
  Cardinality({i \in 1..Len(c.events) : c.events[i] = "already_finalized"})

\* the entries of the system declared under a name
EntriesNamed(c, name) ==
  {i \in 1..Len(c.cache_entries) : c.cache_entries[i].name = name}

\* the state and both kinematics entries are declared, each once
Declared(c) ==
  /\ Len(c.declared_state) = 1
  /\ Len(c.cache_entries) = 2
  /\ Cardinality(EntriesNamed(c, "position kinematics")) = 1
  /\ Cardinality(EntriesNamed(c, "velocity kinematics")) = 1

\* nothing is declared
Undeclared(c) == c.declared_state = <<>> /\ c.cache_entries = <<>>

\* the system owns a tree: the constructor makes or takes one, and nothing
\* releases it
ModelPresent(c) == c.live

\* the lifecycle states
Unbuilt(c) == ~ModelPresent(c) /\ Undeclared(c)
BuiltUnfinalized(c) ==
  ModelPresent(c) /\ ~c.tree.topology_is_valid /\ Undeclared(c)
Finalized(c) ==
  ModelPresent(c) /\ c.tree.topology_is_valid /\ Declared(c)
TopologyValidOnly(c) ==
  ModelPresent(c) /\ c.tree.topology_is_valid /\ Undeclared(c)

\* the step is a call of op (every call sets last)
Called(op) == last'.op = op

\* the step ran the body of Finalize() on the system in slot s: a call of
\* Finalize() past its guard, or a constructor that was given a tree
RanFinalizeBody(s) ==
  /\ last'.sys = s
  /\ \/ Called("Finalize") /\ ~FinalizeThrows(sys[s])
     \/ Called("Construct") /\ last'.arg \in {"tree", "finalized tree"}
     \/ Called("Convert") /\ last'.result # "logic_error"

\* what a run of the body of Finalize() adds to the log of a system whose
\* tree had a valid topology before (valid) or not
FinalizeSteps(valid) ==
  (IF valid THEN <<>> ELSE <<"tree.Finalize">>)
  \o <<"DeclareState", "DeclareCacheEntry:position kinematics",
       "DeclareCacheEntry:velocity kinematics", "already_finalized">>

\* the step is a change of the state in the context
StateMutation ==
  Called("SetPositions") \/ Called("SetVelocities") \/ Called("SetDefaultState")

\* the step ran the calc function of the entry whose value was old and is new
CalcRan(old, new) == new.recomputes = old.recomputes + 1

\* the values of the two kinematics entries in context x
PositionValue(x) == CacheValue(x, sys[x.owner].position_kinematics_cache_index)
VelocityValue(x) == CacheValue(x, sys[x.owner].velocity_kinematics_cache_index)

\* C1: once a Finalize() has succeeded on a system (the one the constructor
\* makes for a supplied tree included), every later Finalize() on it ends in
\* a logic error and changes nothing; no system completes Finalize() twice.
C1_RepeatedFinalizeFails ==
  [][\A s \in Systems :
       /\ FinalizeCompleted(sys'[s]) <= 1
       /\ (FinalizeCompleted(sys[s]) >= 1 /\ last' = Call("Finalize", s, last'.result))
            => (last'.result = "logic_error" /\ sys' = sys)]_vars

\* C1 witness: a Finalize() was rejected on a system that had been finalized
C1_Witness ==
  \E s \in Systems :
    /\ last = Call("Finalize", s, "logic_error")
    /\ FinalizeCompleted(sys[s]) = 1

\* C2: on a finalized system mutable_tree() ends in a logic error, hands out
\* no reference and lets no structural edit through; the tree of a finalized
\* system has a valid topology.
C2_NoMutableTreeWhenFinalized ==
  [][\A s \in Systems :
       /\ sys'[s].already_finalized => sys'[s].tree.topology_is_valid
       /\ (sys[s].already_finalized /\ last'.sys = s
             /\ last'.op \in {"mutable_tree", "AddMobilizer", "tree.Finalize"})
            => (last'.result = "logic_error" /\ sys'[s].tree = sys[s].tree)]_vars

\* C2 witness: mutable_tree() was rejected on a finalized system
C2_Witness ==
  \E s \in Systems :
    /\ last = Call("mutable_tree", s, "logic_error")
    /\ sys[s].already_finalized

\* C3: between two changes of the state each kinematics entry is recomputed at
\* most once, however often it is pulled; after a change of the positions
\* alone, a pull of the velocity entry leaves both entries up to date and
\* recomputed exactly once since the change.
C3_Memoization ==
  [][ctx'.live =>
       /\ PositionValue(ctx').recomputes <= 1
       /\ VelocityValue(ctx').recomputes <= 1
       /\ (Called("EvalVelocityKinematics") /\ ctx.last_change = "q")
            => /\ PositionValue(ctx').recomputes = 1
               /\ VelocityValue(ctx').recomputes = 1
               /\ PositionValue(ctx').up_to_date
               /\ VelocityValue(ctx').up_to_date]_vars

\* C3 witness: the velocity entry was pulled after a change of the positions
\* alone
C3_Witness ==
  /\ ctx.live
  /\ ctx.last_change = "q"
  /\ last.op = "EvalVelocityKinematics"
  /\ PositionValue(ctx).recomputes = 1
  /\ VelocityValue(ctx).recomputes = 1

\* C4: when both entries are up to date and the velocities alone change, the
\* position entry stays up to date for the current positions and no pull
\* recomputes it; the velocity entry is out of date from the change until its
\* next pull, which recomputes it once.
C4_VelocityOnlyChange ==
  [][(ctx'.live /\ ctx'.last_change = "v" /\ ctx'.fresh_at_change) =>
       /\ PositionValue(ctx').up_to_date
       /\ PositionValue(ctx').recomputes = 0
       /\ PositionValue(ctx').from_q = ctx'.q
       /\ Called("SetVelocities") => ~VelocityValue(ctx').up_to_date
       /\ Called("EvalVelocityKinematics") => VelocityValue(ctx').up_to_date
       /\ VelocityValue(ctx').recomputes =
            (IF VelocityValue(ctx').up_to_date THEN 1 ELSE 0)]_vars

\* C4 witness: after a change of the velocities alone both entries were pulled
C4_Witness ==
  /\ ctx.live
  /\ ctx.last_change = "v"
  /\ ctx.fresh_at_change
  /\ last.op = "EvalPositionKinematics"
  /\ VelocityValue(ctx).recomputes = 1
  /\ PositionValue(ctx).recomputes = 0

\* C5 as stated: a system constructed with a null tree is never finalized while
\* nothing has been added to its tree.
C5_Original ==
  \A s \in Systems :
    (sys[s].live /\ sys[s].deferred /\ sys[s].tree.num_mobilizers = 0)
      => ~sys[s].already_finalized

\* C5 amended: a system constructed with a null tree (null allowed) owns an
\* empty tree whose topology is not valid and is not finalized by construction;
\* the first Finalize() on it succeeds, whatever was added to the tree, and
\* every later one ends in a logic error.
C5_DeferredConstruction ==
  [][\A s \in Systems :
       /\ (Called("Construct") /\ ~sys[s].live /\ sys'[s].live /\ sys'[s].deferred)
            => /\ ~sys'[s].already_finalized
               /\ sys'[s].tree = EmptyTree(sys'[s].scalar)
               /\ Undeclared(sys'[s])
       /\ (sys[s].live /\ sys[s].deferred /\ Called("Finalize") /\ last'.sys = s)
            => IF sys[s].already_finalized
               THEN last'.result = "logic_error" /\ sys' = sys
               ELSE last'.result = "ok" /\ Finalized(sys'[s])
                    /\ sys'[s].already_finalized]_vars

\* C5 witness: Finalize() succeeded on a system constructed with a null tree
\* to whose tree nothing was added
C5_Witness ==
  \E s \in Systems :
    /\ sys[s].deferred
    /\ sys[s].tree.num_mobilizers = 0
    /\ last = Call("Finalize", s, "ok")

\* C6: a system that is marked finalized has a valid topology, its state and
\* both cache entries declared, and no call changes that.
C6_FinalizedIsTerminal ==
  [][\A s \in Systems :
       sys[s].already_finalized
         => (sys'[s].already_finalized /\ Finalized(sys'[s]))]_vars

\* C6 witness: a structural edit was attempted on a finalized system
C6_Witness ==
  \E s \in Systems :
    /\ sys[s].already_finalized
    /\ last = Call("AddMobilizer", s, "logic_error")

\* C7 as stated: every system is in exactly one of Unbuilt, BuiltUnfinalized
\* and Finalized, its topology being valid iff state and caches are declared.
C7_Original ==
  \A s \in Systems :
    sys[s].live =>
      /\ Unbuilt(sys[s]) \/ BuiltUnfinalized(sys[s]) \/ Finalized(sys[s])
      /\ sys[s].tree.topology_is_valid <=> Declared(sys[s])

\* C7 amended: every system has a tree and is in exactly one of
\* BuiltUnfinalized, TopologyValidOnly (the caller finalized the tree through
\* the reference of mutable_tree(); nothing is declared) and Finalized; state
\* and caches are declared iff the system is marked finalized, and then the
\* topology is valid.
C7_LifecycleStates ==
  \A s \in Systems :
    sys[s].live =>
      /\ ModelPresent(sys[s]) /\ ~Unbuilt(sys[s])
      /\ \/ BuiltUnfinalized(sys[s])
         \/ TopologyValidOnly(sys[s])
         \/ Finalized(sys[s])
      /\ sys[s].already_finalized <=> Declared(sys[s])
      /\ sys[s].already_finalized <=> ~Undeclared(sys[s])
      /\ Declared(sys[s]) => sys[s].tree.topology_is_valid

\* C7 witness: the caller finalized the tree of an unfinalized system through
\* the reference
C7_Witness ==
  \E s \in Systems :
    /\ last = Call("tree.Finalize", s, "ok")
    /\ TopologyValidOnly(sys[s])
    /\ ~sys[s].already_finalized

\* C8: the state and each of the two cache entries are declared at most once
\* per system, exactly once when it is finalized, and only by a Finalize()
\* that succeeds (the constructors call it); a rejected Finalize() declares
\* nothing.
C8_DeclaredOnce ==
  [][\A s \in Systems :
       /\ Len(sys'[s].declared_state) <= 1
       /\ Cardinality(EntriesNamed(sys'[s], "position kinematics")) <= 1
       /\ Cardinality(EntriesNamed(sys'[s], "velocity kinematics")) <= 1
       /\ sys'[s].already_finalized => Declared(sys'[s])
       /\ (sys'[s].declared_state # sys[s].declared_state
             \/ sys'[s].cache_entries # sys[s].cache_entries)
            => /\ last'.sys = s /\ last'.result = "ok"
               /\ last'.op \in {"Finalize", "Construct", "Convert"}
               /\ ~sys[s].already_finalized /\ sys'[s].already_finalized
       /\ last' = Call("Finalize", s, "logic_error") => sys'[s] = sys[s]]_vars

\* C8 witness: Finalize() succeeded on a system and declared its state and
\* caches
C8_Witness ==
  \E s \in Systems :
    /\ last = Call("Finalize", s, "ok")
    /\ Declared(sys[s])
    /\ sys[s].tree.num_mobilizers > 0

\* C9: the declared state of a finalized system is, in discrete mode, one
\* vector of num_states entries and, in continuous mode, a vector of num_states
\* entries split into num_positions, num_velocities and 0 further ones, which
\* sum to its length; a context has the mode of its system.
C9_DeclaredStateShape ==
  /\ \A s \in Systems :
       sys[s].already_finalized =>
         LET t == sys[s].tree
             d == sys[s].declared_state[1]
         IN  /\ Len(sys[s].declared_state) = 1
             /\ d.size = t.num_states
             /\ d.size = t.mob_q + t.mob_v
             /\ IF sys[s].is_discrete
                THEN d.kind = "discrete"
                ELSE /\ d.kind = "continuous"
                     /\ d.num_q = t.num_positions /\ d.num_q = t.mob_q
                     /\ d.num_v = t.num_velocities /\ d.num_v = t.mob_v
                     /\ d.num_z = 0
                     /\ d.num_q + d.num_v + d.num_z = d.size
  /\ ctx.live => ctx.is_discrete = sys[ctx.owner].is_discrete

\* C9 witness: a continuous system of 4 positions and 3 velocities is
\* finalized
C9_Witness ==
  \E s \in Systems :
    /\ sys[s].already_finalized
    /\ ~sys[s].is_discrete
    /\ sys[s].declared_state =
         <<[kind |-> "continuous", size |-> 7, num_q |-> 4, num_v |-> 3,
            num_z |-> 0]>>

\* C10: a system converted from a finalized system is finalized, is over the
\* other scalar, and has the mode, the sizes, the declared state and the cache
\* entries of its source; the conversion leaves the source as it was.
C10_ConversionPreservesStructure ==
  [][/\ \A c \in Systems :
          (sys'[c].live /\ sys'[c].cloned_from # 0) =>
            LET d == sys'[c]
                o == sys'[d.cloned_from]
            IN  o.already_finalized =>
                  /\ d.already_finalized /\ Finalized(d)
                  /\ d.scalar = ConvertedScalar(o.scalar)
                  /\ d.tree.scalar = d.scalar
                  /\ d.is_discrete = o.is_discrete
                  /\ d.tree.num_states = o.tree.num_states
                  /\ d.tree.num_positions = o.tree.num_positions
                  /\ d.tree.num_velocities = o.tree.num_velocities
                  /\ d.declared_state = o.declared_state
                  /\ d.cache_entries = o.cache_entries
                  /\ d.position_kinematics_cache_index =
                       o.position_kinematics_cache_index
                  /\ d.velocity_kinematics_cache_index =
                       o.velocity_kinematics_cache_index
     /\ Called("Convert") => sys'[Source] = sys[Source]]_vars

\* C10 witness: a finalized discrete AutoDiffXd system with a mobilizer was
\* converted to double
C10_Witness ==
  /\ last = Call("Convert", Clone, "ok")
  /\ sys[Clone].scalar = "double"
  /\ sys[Clone].cloned_from = Source
  /\ sys[Source].already_finalized
  /\ sys[Source].is_discrete
  /\ sys[Source].tree.num_states = 7

\* C11: a kinematics entry is up to date iff it has been computed and none of
\* its tickets (positions for the position entry; positions or velocities for
\* the velocity entry) was touched since its last recompute; a pull of an
\* entry that is out of date runs its calc function once and leaves it up to
\* date, a pull of an entry that is up to date leaves its value as stored.
C11_ValidIffUntouched ==
  [][ctx'.live =>
       LET P == PositionValue(ctx')
           V == VelocityValue(ctx')
       IN  /\ P.up_to_date <=> (P.from_q # Unset /\ P.touched \cap {"q"} = {})
           /\ V.up_to_date <=> (V.from_v # Unset /\ V.touched \cap {"q", "v"} = {})
           /\ (Called("EvalPositionKinematics") /\ ctx.live) =>
                IF PositionValue(ctx).up_to_date
                THEN P = PositionValue(ctx)
                ELSE P.up_to_date /\ P.recomputes = PositionValue(ctx).recomputes + 1
           /\ (Called("EvalVelocityKinematics") /\ ctx.live) =>
                IF VelocityValue(ctx).up_to_date
                THEN V = VelocityValue(ctx)
                ELSE V.up_to_date /\ V.recomputes = VelocityValue(ctx).recomputes + 1
     ]_vars

\* C11 witness: the velocity entry was computed, the velocities were then
\* touched, and the position entry was pulled without being recomputed
C11_Witness ==
  /\ ctx.live
  /\ last.op = "EvalPositionKinematics"
  /\ PositionValue(ctx).up_to_date
  /\ PositionValue(ctx).recomputes = 0
  /\ ~VelocityValue(ctx).up_to_date
  /\ VelocityValue(ctx).from_v # Unset
  /\ VelocityValue(ctx).touched = {"v"}

\* C12: whenever the velocity calc function has run, the position entry is up
\* to date for the current positions, and the velocity value a pull returns is
\* computed from the position kinematics of the current positions and from the
\* current velocities.
C12_VelocityFromCurrentPosition ==
  [][ctx'.live =>
       LET P == PositionValue(ctx')
           V == VelocityValue(ctx')
       IN  /\ V.up_to_date =>
                /\ P.up_to_date /\ P.from_q = ctx'.q
                /\ V.from_q = ctx'.q /\ V.from_v = ctx'.v
           /\ Called("EvalVelocityKinematics") => V.up_to_date
     ]_vars

\* C12 witness: the velocity entry was pulled while the position entry held a
\* value computed from other positions
C12_Witness ==
  /\ ctx.live
  /\ last.op = "EvalVelocityKinematics"
  /\ ctx.last_change = "q"
  /\ ctx.q = 1
  /\ VelocityValue(ctx).from_q = 1
  /\ VelocityValue(ctx).recomputes = 1
  /\ PositionValue(ctx).recomputes = 1

\* C13: the constructor given a null tree and null_tree_is_ok false ends in a
\* logic error with no system made: no tree attached, nothing declared, not
\* marked finalized; given a null tree and null_tree_is_ok true it returns a
\* system that is not marked finalized and has nothing declared.
C13_NullTree ==
  [][\A s \in Systems :
       (Called("Construct") /\ last'.sys = s) =>
         /\ last'.arg = "nullptr" =>
              /\ last'.result = "logic_error"
              /\ sys' = sys
              /\ ~ModelPresent(sys'[s])
              /\ Undeclared(sys'[s])
              /\ ~sys'[s].already_finalized
         /\ last'.arg = "nullptr, null_tree_is_ok" =>
              /\ last'.result = "ok"
              /\ ModelPresent(sys'[s])
              /\ Undeclared(sys'[s])
              /\ ~sys'[s].already_finalized
     ]_vars

\* C13 witness: a construction with a null tree was refused
C13_Witness ==
  /\ last = CallWith("Construct", Source, "logic_error", "nullptr")
  /\ ~sys[Source].live

\* C14: when the body of Finalize() runs in continuous mode on a tree whose
\* num_positions + num_velocities differ from its num_states, the call ends in
\* a fatal error with the system not marked finalized and no state declared;
\* every continuous state ever declared has segments that sum to its size.
C14_SizeMismatchIsFatal ==
  [][\A s \in Systems :
       /\ (/\ RanFinalizeBody(s)
           /\ ~sys'[s].is_discrete
           /\ sys'[s].tree.num_positions + sys'[s].tree.num_velocities
                # sys'[s].tree.num_states) =>
            /\ last'.result = "fatal_error"
            /\ ~sys'[s].already_finalized
            /\ sys'[s].declared_state = <<>>
       /\ \A i \in 1..Len(sys'[s].declared_state) :
            LET d == sys'[s].declared_state[i]
            IN  d.kind = "continuous" => d.size = d.num_q + d.num_v + d.num_z
     ]_vars

\* C14 witness: Finalize() was called on a continuous-mode system whose tree
\* reports one state too many, and ended in the fatal error
C14_Witness ==
  /\ last.op = "Finalize"
  /\ last.result = "fatal_error"
  /\ ~sys[last.sys].is_discrete
  /\ sys[last.sys].tree.topology_is_valid
  /\ sys[last.sys].tree.num_states = sys[last.sys].tree.num_positions
                                      + sys[last.sys].tree.num_velocities + 1
  /\ ~sys[last.sys].already_finalized

\* C15: a run of the body of Finalize() that succeeds does, in this order and
\* nothing else: the tree's Finalize() if and only if the topology was not
\* valid before, the state declaration, the declaration of the position
\* entry, that of the velocity entry, and last the setting of the flag; a run
\* that fails leaves the system not marked finalized.
C15_FinalizeOrder ==
  [][\A s \in Systems :
       RanFinalizeBody(s) =>
         /\ last'.result = "ok" =>
              /\ Called("Finalize") =>
                   sys'[s].events =
                     sys[s].events \o FinalizeSteps(sys[s].tree.topology_is_valid)
              /\ Called("Construct") =>
                   sys'[s].events = FinalizeSteps(last'.arg = "finalized tree")
              /\ Called("Convert") => sys'[s].events = FinalizeSteps(TRUE)
              /\ sys'[s].already_finalized
         /\ last'.result # "ok" =>
              /\ ~sys'[s].already_finalized
              /\ \A i \in 1..Len(sys'[s].events) :
                   sys'[s].events[i] # "already_finalized"
     ]_vars

\* C15 witness: Finalize() succeeded on a system whose tree the caller had
\* finalized already, and did not finalize the tree again
C15_Witness ==
  /\ last = Call("Finalize", Source, "ok")
  /\ sys[Source].deferred
  /\ sys[Source].tree.num_mobilizers = 1
  /\ sys[Source].events = FinalizeSteps(TRUE)

\* C16: the constructor given a tree returns a system whose tree has a valid
\* topology, with the state and both cache entries declared and the flag
\* set; every Finalize() the caller then makes on such a system, the first
\* one included, ends in a logic error.
C16_SuppliedTreeIsFinalized ==
  [][\A s \in Systems :
       /\ (Called("Construct") /\ last'.sys = s
            /\ last'.arg \in {"tree", "finalized tree"}) =>
            /\ last'.result = "ok"
            /\ Finalized(sys'[s])
            /\ sys'[s].already_finalized
       /\ (Called("Finalize") /\ last'.sys = s
            /\ ~sys[s].deferred /\ sys[s].cloned_from = 0) =>
            /\ last'.result = "logic_error"
            /\ FinalizeCompleted(sys'[s]) = 1
     ]_vars

\* C16 witness: the caller's first Finalize() on a system constructed from an
\* unfinalized tree with a mobilizer was refused
C16_Witness ==
  /\ last = Call("Finalize", Source, "logic_error")
  /\ ~sys[Source].deferred
  /\ sys[Source].tree.num_mobilizers = 1
  /\ sys[Source].events = FinalizeSteps(FALSE)

\* C17: a change of the state runs no calc function, it only takes entries
\* out of date; a calc function runs only in a pull, only for an entry that
\* was out of date, and the entry is up to date when the pull returns; a pull
\* of the position entry leaves the velocity entry's value as it was.
C17_PullBased ==
  [][(ctx.live /\ ctx'.live /\ ~Called("CreateContext")) =>
       LET P  == PositionValue(ctx)
           V  == VelocityValue(ctx)
           Pn == PositionValue(ctx')
           Vn == VelocityValue(ctx')
       IN  /\ StateMutation =>
                /\ ~CalcRan(P, Pn) /\ ~CalcRan(V, Vn)
                /\ Pn.from_q = P.from_q
                /\ Vn.from_q = V.from_q /\ Vn.from_v = V.from_v
                /\ Pn.up_to_date => P.up_to_date
                /\ Vn.up_to_date => V.up_to_date
           /\ CalcRan(P, Pn) =>
                /\ Called("EvalPositionKinematics") \/ Called("EvalVelocityKinematics")
                /\ ~P.up_to_date /\ Pn.up_to_date
           /\ CalcRan(V, Vn) =>
                /\ Called("EvalVelocityKinematics")
                /\ ~V.up_to_date /\ Vn.up_to_date
           /\ Called("EvalPositionKinematics") => Vn = V
     ]_vars

\* C17 witness: after a change of the positions the position entry was pulled
\* and recomputed, and the velocity entry, computed before, stayed out of date
C17_Witness ==
  /\ ctx.live
  /\ last.op = "EvalPositionKinematics"
  /\ ctx.last_change = "q"
  /\ PositionValue(ctx).up_to_date
  /\ PositionValue(ctx).recomputes = 1
  /\ ~VelocityValue(ctx).up_to_date
  /\ VelocityValue(ctx).from_v # Unset
  /\ VelocityValue(ctx).recomputes = 0

\* C18: mutable_tree() ends in a logic error exactly when the tree's topology
\* is valid and returns the reference exactly when it is not, whatever
\* already_finalized is; a system constructed without a tree has a topology
\* that is not valid; once the caller has finalized the tree through the
\* reference, mutable_tree() is refused, and Finalize() on the system is not:
\* it succeeds, once.
C18_MutableTreeGuard ==
  [][\A s \in Systems :
       last'.sys = s =>
         /\ Called("mutable_tree") =>
              /\ last'.result = "logic_error" <=> sys[s].tree.topology_is_valid
              /\ last'.result = "ok" <=> ~sys[s].tree.topology_is_valid
         /\ (Called("Construct") /\ last'.arg = "nullptr, null_tree_is_ok") =>
              ~MutableTreeThrows(sys'[s])
         /\ (Called("tree.Finalize") /\ last'.result = "ok") =>
              /\ MutableTreeThrows(sys'[s])
              /\ ~FinalizeThrows(sys'[s])
         /\ (Called("Finalize") /\ TopologyValidOnly(sys[s])) =>
              /\ last'.result = "ok"
              /\ FinalizeCompleted(sys'[s]) = 1
              /\ FinalizeThrows(sys'[s])
     ]_vars

\* C18 witness: mutable_tree() was refused on a system that is not marked
\* finalized, its tree finalized by the caller
C18_Witness ==
  /\ last = Call("mutable_tree", Source, "logic_error")
  /\ ~sys[Source].already_finalized
  /\ TopologyValidOnly(sys[Source])

\* C19: a system marked finalized has a tree, the tree's topology is valid,
\* exactly one state declaration was made, and the two stored cache indices
\* are valid and different.
C19_FinalizedInvariant ==
  \A s \in Systems :
    sys[s].already_finalized =>
      /\ ModelPresent(sys[s])
      /\ sys[s].tree.topology_is_valid
      /\ Len(sys[s].declared_state) = 1
      /\ sys[s].position_kinematics_cache_index # NoIndex
      /\ sys[s].velocity_kinematics_cache_index # NoIndex
      /\ sys[s].position_kinematics_cache_index
           # sys[s].velocity_kinematics_cache_index

\* C19 witness: a system finalized by an explicit Finalize() and its clone,
\* each with the indices 0 and 1
C19_Witness ==
  \A s \in Systems :
    /\ sys[s].already_finalized
    /\ sys[Source].deferred
    /\ sys[s].position_kinematics_cache_index = 0
    /\ sys[s].velocity_kinematics_cache_index = 1

\* C20: a Finalize() or a mutable_tree() that ends in a logic error leaves
\* the system as it was: flag, mode, declared state, cache entries and the
\* two indices; the mode of a system never changes once it is constructed.
C20_RejectedCallsChangeNothing ==
  [][\A s \in Systems :
       /\ (/\ last'.sys = s
           /\ Called("Finalize") \/ Called("mutable_tree")
           /\ last'.result = "logic_error") =>
            /\ sys'[s].already_finalized = sys[s].already_finalized
            /\ sys'[s].is_discrete = sys[s].is_discrete
            /\ sys'[s].declared_state = sys[s].declared_state
            /\ sys'[s].cache_entries = sys[s].cache_entries
            /\ sys'[s].position_kinematics_cache_index
                 = sys[s].position_kinematics_cache_index
            /\ sys'[s].velocity_kinematics_cache_index
                 = sys[s].velocity_kinematics_cache_index
            /\ sys' = sys
       /\ sys[s].live => sys'[s].live /\ sys'[s].is_discrete = sys[s].is_discrete
     ]_vars

\* C20 witness: a Finalize() was refused on a discrete-mode clone
C20_Witness ==
  /\ last = Call("Finalize", Clone, "logic_error")
  /\ sys[Clone].is_discrete
  /\ Declared(sys[Clone])

====
